---- MODULE Spec2Model ----
(***************************************************************************)
(* Model of package xerrors (xerrors.go): the classified error value       *)
(* xError {trace, code, message}, the package-level constructors and       *)
(* wrappers, the XError methods, Error() and Cause().                      *)
(*                                                                         *)
(* Strings are sequences of string tokens (a text); "" is <<>>.            *)
(* A Go `error` interface value is a sequence of layers: <<>> is nil, and  *)
(* a non-nil value is a chain of github.com/pkg/errors wrappers            *)
(* (withStack, withMessage) that ends in a base value: a plain root error  *)
(* or a pointer to an xError of the heap `objs`.                           *)
(***************************************************************************)
EXTENDS Integers, Sequences, FiniteSets, TLC

\* ---------------------------------------------------------------- bounds
MaxCalls == 5      \* calls of the package's API in one run

\* ---------------------------------------------------------------- inputs
Roots       == { <<"EOF">> }
Codes       == { 404 }
Messages    == { <<"not ", "found">> }
Notes       == { <<"open ", "f">> }
FailFormats == { <<"not ", "%s">> }
FailArgs    == { << <<"found">> >> }
WrapFormats == { <<"open ", "%s">> }
WrapArgs    == { << <<"f">> >> }

VARIABLES objs, call, ret, calls
vars == <<objs, call, ret, calls>>

\* ---------------------------------------------------------------- values
Nil == <<>>

StackL       == [k |-> "stack", t |-> <<>>, id |-> 0]
MsgL(m)      == [k |-> "msg",   t |-> m,    id |-> 0]
PlainErr(t)  == << [k |-> "plain", t |-> t, id |-> 0] >>
XRef(i)      == << [k |-> "xerr",  t |-> <<>>, id |-> i] >>

\* err.(XError): the dynamic type of the value is *xError
IsXError(err) == err # Nil /\ err[1].k = "xerr"

\* ------------------------------------------------- github.com/pkg/errors
\* The three primitives xerrors.go calls. Each returns nil for a nil error;
\* WithStack builds withStack{err}, WithMessage builds withMessage{err, m}
\* and Wrap builds withStack{withMessage{err, m}}. Every stack snapshot is
\* the one layer StackL: call sites are not told apart.
errors_WithStack(err) ==
    IF err = Nil THEN Nil ELSE <<StackL>> \o err

errors_WithMessage(err, m) ==
    IF err = Nil THEN Nil ELSE <<MsgL(m)>> \o err

errors_Wrap(err, m) ==
    IF err = Nil THEN Nil ELSE <<StackL, MsgL(m)>> \o err

\* ------------------------------------------------------------ fmt.Sprintf
DigitStr(d) == <<"0", "1", "2", "3", "4", "5", "6", "7", "8", "9">>[d + 1]

RECURSIVE NatStr(_)
NatStr(n) == IF n < 10 THEN <<DigitStr(n)>>
             ELSE NatStr(n \div 10) \o <<DigitStr(n % 10)>>

\* %d
Itoa(n) == IF n < 0 THEN <<"-">> \o NatStr(0 - n) ELSE NatStr(n)

RECURSIVE Extra(_)
Extra(args) ==
    IF args = <<>> THEN <<>>
    ELSE <<"string=">> \o Head(args)
         \o (IF Len(args) > 1 THEN <<", ">> ELSE <<>>) \o Extra(Tail(args))

\* the verbs of a format are the tokens "%s"; operands are texts
RECURSIVE Sprintf(_, _)
Sprintf(format, args) ==
    IF format = <<>>
    THEN IF args = <<>> THEN <<>> ELSE <<"%!(EXTRA ">> \o Extra(args) \o <<")">>
    ELSE IF Head(format) = "%s"
         THEN IF args = <<>>
              THEN <<"%!s(MISSING)">> \o Sprintf(Tail(format), args)
              ELSE Head(args) \o Sprintf(Tail(format), Tail(args))
         ELSE <<Head(format)>> \o Sprintf(Tail(format), args)

\* fmt.Sprintf(`<Error %d>: %s`, code, message)
RawMessage(code, message) ==
    <<"<Error ">> \o Itoa(code) \o <<">: ">> \o message

\* ------------------------------------------------------------------ heap
NewXError(trace, code, message) ==
    [trace |-> trace, code |-> code, message |-> message]

Ids(o) == 1 .. Len(o)

xError_GetError(o, xe) == o[xe].trace
xError_Code(o, xe)     == o[xe].code
xError_Message(o, xe)  == o[xe].message

Res(o, r) == [objs |-> o, ret |-> r]

\* ------------------------------------------------------- xError methods
\* xError.WithStack with a slip: the wrapped xError's code and message are
\* promoted to the receiver
xError_WithStack_Promote(o, xe, err) ==
    LET o1 == [o EXCEPT ![xe].trace = errors_WithStack(err)]
    IN  IF IsXError(err)
        THEN LET re == err[1].id
             IN  IF re = xe
                 THEN Res(o1, XRef(re))
                 ELSE Res([o1 EXCEPT ![xe].trace =
                              errors_WithMessage(o1[xe].trace,
                                  RawMessage(xError_Code(o1, re), xError_Message(o1, re))),
                           ![xe].code = xError_Code(o1, re),
                           ![xe].message = xError_Message(o1, re)],
                          XRef(xe))
        ELSE Res(o1, XRef(xe))

\* xError.WithStack with a slip: the wrapped xError's code and message are
\* not saved in the trace
xError_WithStack_NoRaw(o, xe, err) ==
    Res([o EXCEPT ![xe].trace = errors_WithStack(err)],
        IF IsXError(err) /\ err[1].id = xe THEN err ELSE XRef(xe))

\* func (xe *xError) WithStack(err error) XError
xError_WithStack(o, xe, err) ==
    LET o1 == [o EXCEPT ![xe].trace = errors_WithStack(err)]
    IN  IF IsXError(err)
        THEN LET re == err[1].id
             IN  IF re = xe
                 THEN Res(o1, XRef(re))
                 ELSE LET rawMessage ==
                              RawMessage(xError_Code(o1, re), xError_Message(o1, re))
                      IN  IF Len(rawMessage) # 0
                          THEN Res([o1 EXCEPT ![xe].trace =
                                       errors_WithMessage(o1[xe].trace, rawMessage)],
                                   XRef(xe))
                          ELSE Res(o1, XRef(xe))
        ELSE Res(o1, XRef(xe))

\* xError.Wrap with a slip: a self-wrap captures a stack again
xError_Wrap_Restack(o, xe, err, errString) ==
    IF IsXError(err)
    THEN LET re == err[1].id
             nt == IF re = xe
                   THEN Res(o, xError_GetError(o, re))
                   ELSE xError_WithStack(o, xe, xError_GetError(o, re))
         IN  Res([nt.objs EXCEPT ![xe].trace = errors_Wrap(nt.ret, errString)],
                 XRef(xe))
    ELSE Res([o EXCEPT ![xe].trace = errors_Wrap(err, errString)], XRef(xe))

\* func (xe *xError) Wrap(err error, errString string) XError
xError_Wrap(o, xe, err, errString) ==
    IF IsXError(err)
    THEN LET re == err[1].id
             \* newTrace, and the heap after computing it
             nt == IF re = xe
                   THEN Res(o, xError_GetError(o, re))
                   ELSE xError_WithStack(o, xe, xError_GetError(o, re))
         IN  Res([nt.objs EXCEPT ![xe].trace = errors_WithMessage(nt.ret, errString)],
                 XRef(xe))
    ELSE Res([o EXCEPT ![xe].trace = errors_Wrap(err, errString)], XRef(xe))

\* func (xe *xError) Wrapf(err error, errString string, args ...interface{}) XError
xError_Wrapf(o, xe, err, errString, args) ==
    IF IsXError(err)
    THEN LET re == err[1].id
             nt == IF re = xe
                   THEN Res(o, xError_GetError(o, re))
                   ELSE xError_WithStack(o, xe, xError_GetError(o, re))
         IN  Res([nt.objs EXCEPT ![xe].trace =
                     errors_WithMessage(nt.ret, Sprintf(errString, args))],
                 XRef(xe))
    ELSE Res([o EXCEPT ![xe].trace = errors_Wrap(err, Sprintf(errString, args))],
             XRef(xe))

\* ------------------------------------------------ package-level functions
\* func Fail(code int, message string) XError
Fail(o, code, message) ==
    Res(Append(o, NewXError(Nil, code, message)), XRef(Len(o) + 1))

\* func Failf(code int, format string, args ...interface{}) XError
Failf(o, code, format, args) ==
    Res(Append(o, NewXError(Nil, code, Sprintf(format, args))), XRef(Len(o) + 1))

\* Wrap with a slip: an xError is not recognised, a new struct is made
Wrap_AlwaysNew(o, err, errString) ==
    IF err = Nil THEN Res(o, Nil)
    ELSE Res(Append(o, NewXError(errors_Wrap(err, errString), 0, <<>>)),
             XRef(Len(o) + 1))

\* func Wrap(err error, errString string) XError
Wrap(o, err, errString) ==
    IF err = Nil THEN Res(o, Nil)
    ELSE IF IsXError(err) THEN xError_Wrap(o, err[1].id, err, errString)
    ELSE Res(Append(o, NewXError(errors_Wrap(err, errString), 0, <<>>)),
             XRef(Len(o) + 1))

\* func Wrapf(err error, errString string, args ...interface{}) XError
Wrapf(o, err, errString, args) ==
    IF err = Nil THEN Res(o, Nil)
    ELSE IF IsXError(err) THEN xError_Wrapf(o, err[1].id, err, errString, args)
    ELSE Res(Append(o, NewXError(errors_Wrap(err, Sprintf(errString, args)), 0, <<>>)),
             XRef(Len(o) + 1))

\* WithStack with a slip: no nil check
WithStack_NoNilCheck(o, err) ==
    IF IsXError(err) THEN xError_WithStack(o, err[1].id, err)
    ELSE Res(Append(o, NewXError(errors_WithStack(err), 0, <<>>)),
             XRef(Len(o) + 1))

\* func WithStack(err error) XError
WithStack(o, err) ==
    IF err = Nil THEN Res(o, Nil)
    ELSE IF IsXError(err) THEN xError_WithStack(o, err[1].id, err)
    ELSE Res(Append(o, NewXError(errors_WithStack(err), 0, <<>>)),
             XRef(Len(o) + 1))

\* ------------------------------------------------------- Error and Cause
\* A result that is never produced (unbounded recursion, endless loop)
Diverges  == [term |-> FALSE, err |-> Nil, str |-> <<>>]
RetErr(e) == [term |-> TRUE, err |-> e, str |-> <<>>]
RetStr(t) == [term |-> TRUE, err |-> Nil, str |-> t]

\* err.Error() of a non-nil value; xe.Error() of an xError (lines 170-175).
\* `seen` holds the xErrors whose Error() is on the call stack: entering one
\* of them again repeats the same calls for ever.
RECURSIVE ErrorOf(_, _, _)
ErrorOf(o, err, seen) ==
    LET l == Head(err)
    IN  CASE l.k = "plain" -> RetStr(l.t)
          [] l.k = "stack" -> ErrorOf(o, Tail(err), seen)
          [] l.k = "msg"   -> LET r == ErrorOf(o, Tail(err), seen)
                              IN  IF r.term THEN RetStr(l.t \o <<": ">> \o r.str)
                                  ELSE Diverges
          [] l.k = "xerr"  -> IF l.id \in seen THEN Diverges
                              ELSE IF o[l.id].trace = Nil THEN RetStr(<<>>)
                              ELSE ErrorOf(o, o[l.id].trace, seen \cup {l.id})

\* func (xe *xError) Error() string
xError_Error(o, xe) == ErrorOf(o, XRef(xe), {})

\* func (xe *xError) Cause() error
\* a non-nil trace is a withStack or a withMessage, which are causers
xError_Cause(o, xe) ==
    IF o[xe].trace = Nil \/ o[xe].trace[1].k \notin {"stack", "msg"}
    THEN o[xe].trace
    ELSE Tail(o[xe].trace)

\* the loop of func Cause(err error) error; `seen` holds the xErrors the
\* loop has already passed, the loop never ends once it meets one again
RECURSIVE CauseLoop(_, _, _)
CauseLoop(o, err, seen) ==
    IF err = Nil THEN RetErr(err)
    ELSE LET l == Head(err)
         IN  CASE l.k = "plain" -> RetErr(err)
               [] l.k \in {"stack", "msg"} -> CauseLoop(o, Tail(err), seen)
               [] l.k = "xerr" ->
                    IF l.id \in seen THEN Diverges
                    ELSE CauseLoop(o, xError_Cause(o, l.id), seen \cup {l.id})

\* func Cause(err error) error
Cause(o, err) == CauseLoop(o, err, {})

\* ---------------------------------------------------------- state machine
\* `objs` is the heap of xError values, `call` the caller's last call with
\* its operands, `ret` what that call returned and `calls` the number of
\* calls made so far.
\* call.depth and call.root follow a caller that nests package-level
\* WithStack calls, WithStack(WithStack(...WithStack(root))): depth is the
\* number of nested calls made so far on the plain error root (0: the last
\* call is not part of such a nest); Cause applied to the value the nest
\* produced keeps both.
MkCall(op, recv, err, code, str, args, depth, root) ==
    [op |-> op, recv |-> recv, err |-> err, code |-> code, str |-> str,
     args |-> args, depth |-> depth, root |-> root]

Simple(op, recv, err, code, str, args) ==
    MkCall(op, recv, err, code, str, args, 0, Nil)

IsPlain(err) == err # Nil /\ err[1].k = "plain"

\* operands a caller can pass as `err`
Operands == {Nil} \cup {PlainErr(r) : r \in Roots} \cup {XRef(i) : i \in Ids(objs)}

\* the call takes the value the nest produced
OnNest(err) ==
    /\ call.op = "WithStack"
    /\ call.depth >= 1
    /\ ret.term
    /\ err # Nil
    /\ err = ret.err

NestDepth(err) ==
    IF IsPlain(err) THEN 1 ELSE IF OnNest(err) THEN call.depth + 1 ELSE 0

NestRoot(err) ==
    IF IsPlain(err) THEN err ELSE IF OnNest(err) THEN call.root ELSE Nil

Apply(r, c) ==
    /\ calls < MaxCalls
    /\ calls' = calls + 1
    /\ objs' = r.objs
    /\ ret' = RetErr(r.ret)
    /\ call' = c

Read(r, c) ==
    /\ calls < MaxCalls
    /\ calls' = calls + 1
    /\ objs' = objs
    /\ ret' = r
    /\ call' = c

Init ==
    /\ objs = <<>>
    /\ call = Simple("init", 0, Nil, 0, <<>>, <<>>)
    /\ ret = RetErr(Nil)
    /\ calls = 0

DoFail(code, message) ==
    Apply(Fail(objs, code, message), Simple("Fail", 0, Nil, code, message, <<>>))

DoFailf(code, format, args) ==
    Apply(Failf(objs, code, format, args), Simple("Failf", 0, Nil, code, format, args))

DoWrap(err, errString) ==
    Apply(Wrap(objs, err, errString), Simple("Wrap", 0, err, 0, errString, <<>>))

DoWrapf(err, errString, args) ==
    Apply(Wrapf(objs, err, errString, args), Simple("Wrapf", 0, err, 0, errString, args))

DoWithStack(err) ==
    Apply(WithStack(objs, err),
          MkCall("WithStack", 0, err, 0, <<>>, <<>>, NestDepth(err), NestRoot(err)))

DoXWrap(xe, err, errString) ==
    Apply(xError_Wrap(objs, xe, err, errString),
          Simple("xError.Wrap", xe, err, 0, errString, <<>>))

DoXWrapf(xe, err, errString, args) ==
    Apply(xError_Wrapf(objs, xe, err, errString, args),
          Simple("xError.Wrapf", xe, err, 0, errString, args))

DoXWithStack(xe, err) ==
    Apply(xError_WithStack(objs, xe, err),
          Simple("xError.WithStack", xe, err, 0, <<>>, <<>>))

DoError(xe) ==
    Read(xError_Error(objs, xe), Simple("xError.Error", xe, Nil, 0, <<>>, <<>>))

DoCause(err) ==
    Read(Cause(objs, err),
         IF OnNest(err)
         THEN MkCall("Cause", 0, err, 0, <<>>, <<>>, call.depth, call.root)
         ELSE Simple("Cause", 0, err, 0, <<>>, <<>>))

Next ==
    \/ \E c \in Codes, m \in Messages : DoFail(c, m)
    \/ \E c \in Codes, f \in FailFormats, a \in FailArgs : DoFailf(c, f, a)
    \/ \E err \in Operands, s \in Notes : DoWrap(err, s)
    \/ \E err \in Operands, f \in WrapFormats, a \in WrapArgs : DoWrapf(err, f, a)
    \/ \E err \in Operands : DoWithStack(err)
    \/ \E xe \in Ids(objs), err \in Operands, s \in Notes : DoXWrap(xe, err, s)
    \/ \E xe \in Ids(objs), err \in Operands, f \in WrapFormats, a \in WrapArgs :
          DoXWrapf(xe, err, f, a)
    \/ \E xe \in Ids(objs), err \in Operands : DoXWithStack(xe, err)
    \/ \E xe \in Ids(objs) : DoError(xe)
    \/ \E err \in Operands : DoCause(err)

Spec == Init /\ [][Next]_vars

\* A caller that only uses the package-level Wrap and Wrapf (Readme, usage 1)
NextWrap ==
    \/ \E err \in Operands, s \in Notes : DoWrap(err, s)
    \/ \E err \in Operands, f \in WrapFormats, a \in WrapArgs : DoWrapf(err, f, a)

SpecWrap == Init /\ [][NextWrap]_vars

\* ------------------------------------------------------------ properties
IsSuffix(a, b) ==
    Len(a) <= Len(b) /\ SubSeq(b, Len(b) - Len(a) + 1, Len(b)) = a

StackCount(t) == Cardinality({i \in 1 .. Len(t) : t[i].k = "stack"})

HasLayer(t, l) == \E i \in 1 .. Len(t) : t[i] = l

\* the decimal digits of the codes the model uses, written out
CodeDigits(c) == CASE c = 0 -> <<"0">> [] c = 404 -> <<"4", "0", "4">>

\* the text "<Error c>: m"
DebugText(c, m) == <<"<Error ">> \o CodeDigits(c) \o <<">: ">> \o m

\* the step is a call (not a stuttering step)
Called == calls' = calls + 1

\* the call c passes the receiver itself / another xError to a method
SelfCall(c)  == c.recv > 0 /\ c.err = XRef(c.recv)
OtherCall(c) == c.recv > 0 /\ IsXError(c.err) /\ c.err # XRef(c.recv)

\* the annotation the call c of Wrap or Wrapf attaches
Annotation(c) == IF c.op \in {"Wrapf", "xError.Wrapf"} THEN Sprintf(c.str, c.args)
                 ELSE c.str

\* the xError that the trace of xError i ends in, 0 if it ends in none
RefOf(o, i) ==
    IF o[i].trace # Nil /\ o[i].trace[Len(o[i].trace)].k = "xerr"
    THEN o[i].trace[Len(o[i].trace)].id
    ELSE 0

RECURSIVE ReachedIn(_, _, _, _)
\* xError j is met within n underlying-error links from the trace of i
ReachedIn(o, i, j, n) ==
    /\ n > 0
    /\ RefOf(o, i) # 0
    /\ (RefOf(o, i) = j \/ ReachedIn(o, RefOf(o, i), j, n - 1))

\* --- C1
\* C1: no call changes the code or the message of an existing xError; an
\* xError made by Fail/Failf carries the code and message of the call, and
\* one made by the package-level Wrap/Wrapf/WithStack has code 0 and
\* message "".
C1_Step ==
    /\ \A i \in Ids(objs) :
          /\ i \in Ids(objs')
          /\ xError_Code(objs', i) = xError_Code(objs, i)
          /\ xError_Message(objs', i) = xError_Message(objs, i)
    /\ \A i \in Ids(objs') \ Ids(objs) :
          /\ call'.op = "Fail" =>
                xError_Code(objs', i) = call'.code /\ xError_Message(objs', i) = call'.str
          /\ call'.op = "Failf" =>
                /\ xError_Code(objs', i) = call'.code
                /\ xError_Message(objs', i) = Sprintf(call'.str, call'.args)
          /\ call'.op \in {"Wrap", "Wrapf", "WithStack"} =>
                xError_Code(objs', i) = 0 /\ xError_Message(objs', i) = <<>>

C1_ClassificationKept == [][C1_Step]_vars

\* a classified error has just wrapped an unclassified one with a method
C1_Witness ==
    /\ call.op \in {"xError.Wrap", "xError.Wrapf", "xError.WithStack"}
    /\ OtherCall(call)
    /\ xError_Code(objs, call.recv) = 404
    /\ xError_Message(objs, call.recv) = <<"not ", "found">>
    /\ xError_Code(objs, call.err[1].id) = 0
    /\ objs[call.recv].trace # Nil

\* --- C2
\* C2: a method call x.Wrap, x.Wrapf or x.WithStack whose argument is not x
\* keeps the whole previous trace of x under what it adds, and adds
\* something when the argument is not nil.
C2_TraceMonotone ==
    [][(/\ Called
        /\ call'.op \in {"xError.Wrap", "xError.Wrapf", "xError.WithStack"}
        /\ ~SelfCall(call'))
       => /\ IsSuffix(objs[call'.recv].trace, objs'[call'.recv].trace)
          /\ call'.err # Nil =>
                Len(objs'[call'.recv].trace) > Len(objs[call'.recv].trace)]_vars

\* --- C3
\* C3: after b.Wrap(a, s) with a another xError, the trace of b has s as its
\* top annotation, holds the annotation "<Error ca>: ma" and ends in a's
\* prior trace, and b's code and message are unchanged.
C3_NestedPreserved ==
    [][(Called /\ call'.op = "xError.Wrap" /\ OtherCall(call'))
       => LET b == call'.recv
              a == call'.err[1].id
              t == objs'[b].trace
          IN  /\ t # Nil
              /\ t[1] = MsgL(call'.str)
              /\ HasLayer(t, MsgL(DebugText(objs[a].code, objs[a].message)))
              /\ IsSuffix(objs[a].trace, t)
              /\ xError_Code(objs', b) = xError_Code(objs, b)
              /\ xError_Message(objs', b) = xError_Message(objs, b)]_vars

\* --- C4
\* C4: x.WithStack(x) and the package-level WithStack(x) return x and leave
\* every xError, x's trace included, as it was.
C4_SelfWithStackNoop ==
    [][(/\ Called
        /\ \/ call'.op = "xError.WithStack" /\ SelfCall(call')
           \/ call'.op = "WithStack" /\ IsXError(call'.err))
       => ret' = RetErr(call'.err) /\ objs' = objs]_vars

\* --- C5
\* C5: no xError is reachable from its own trace, and Error() and Cause of
\* every xError terminate.
C5_NoSelfReference ==
    \A i \in Ids(objs) :
       /\ ~ReachedIn(objs, i, i, Len(objs))
       /\ xError_Error(objs, i).term
       /\ Cause(objs, XRef(i)).term

\* --- C6
\* C6 (as claimed): x.Wrap(x, m) called again right after x.Wrap(x, m)
\* leaves the trace of x as the first call left it.
C6_SelfWrapIdempotent ==
    [][(/\ Called
        /\ call.op = "xError.Wrap" /\ SelfCall(call)
        /\ call' = call)
       => objs'[call'.recv].trace = objs[call'.recv].trace]_vars

\* C6 (amended): a self-wrap x.Wrap(x, m) or x.Wrapf(x, ...) leaves an empty
\* trace empty and otherwise puts exactly one message-only layer m on top
\* of the unchanged previous trace: it adds no stack snapshot, changes no
\* other xError and returns x.
C6_SelfWrapAddsOneMessage ==
    [][(Called /\ call'.op \in {"xError.Wrap", "xError.Wrapf"} /\ SelfCall(call'))
       => LET x == call'.recv
              old == objs[x].trace
          IN  /\ objs' = [objs EXCEPT ![x].trace =
                            IF old = Nil THEN Nil
                            ELSE <<MsgL(Annotation(call'))>> \o old]
              /\ StackCount(objs'[x].trace) = StackCount(old)
              /\ ret' = RetErr(XRef(x))]_vars

\* the second of two self-wraps on a trace that was not empty
C6_Witness ==
    /\ call.op = "xError.Wrap" /\ SelfCall(call)
    /\ Len(objs[call.recv].trace) >= 4
    /\ objs[call.recv].trace[1] = MsgL(call.str)
    /\ objs[call.recv].trace[2] = MsgL(call.str)
    /\ StackCount(objs[call.recv].trace) = 1

\* --- C7
\* C7: after x.WithStack(a) with a another xError, the trace of x is the
\* message-only annotation "<Error C>: M" (a's code and message) on one
\* stack layer on a itself; x's code and message are unchanged and x is
\* returned.
C7_WithStackFolds ==
    [][(Called /\ call'.op = "xError.WithStack" /\ OtherCall(call'))
       => LET x == call'.recv
              a == call'.err[1].id
          IN  /\ objs'[x].trace =
                    <<MsgL(DebugText(objs[a].code, objs[a].message)), StackL>> \o XRef(a)
              /\ xError_Code(objs', x) = xError_Code(objs, x)
              /\ xError_Message(objs', x) = xError_Message(objs, x)
              /\ objs'[a] = objs[a]
              /\ ret' = RetErr(XRef(x))]_vars

\* a classified x has taken the stack of another classified error
C7_Witness ==
    /\ call.op = "xError.WithStack" /\ OtherCall(call)
    /\ xError_Code(objs, call.recv) = 404
    /\ objs[call.recv].trace =
          <<MsgL(<<"<Error ", "4", "0", "4", ">: ", "not ", "found">>), StackL>>
          \o call.err

\* --- C8
\* C8: Cause applied to the result of n >= 1 nested package-level WithStack
\* calls on a plain error root returns root.
C8_CauseDescent ==
    (call.op = "Cause" /\ call.depth >= 1) => ret = RetErr(call.root)

\* --- C9
\* C9: with only package-level Wrap/Wrapf calls, every xError's trace holds
\* exactly one stack snapshot; a call on an xError returns that same
\* xError, allocates nothing and adds one message-only layer on top.
C9_SingleStack ==
    [][(Called /\ call'.err # Nil)
       => /\ \A i \in Ids(objs') : StackCount(objs'[i].trace) = 1
          /\ IsXError(call'.err) =>
                LET x == call'.err[1].id
                IN  /\ ret' = RetErr(call'.err)
                    /\ objs' = [objs EXCEPT ![x].trace =
                                   <<MsgL(Annotation(call'))>> \o objs[x].trace]]_vars

\* Wrap of a plain error followed by two more Wrap/Wrapf of the result
C9_Witness ==
    /\ call.op \in {"Wrap", "Wrapf"} /\ IsXError(call.err)
    /\ ret = RetErr(call.err)
    /\ Len(objs[call.err[1].id].trace) = 5
    /\ StackCount(objs[call.err[1].id].trace) = 1

\* --- C10
\* C10: the package-level Wrap, Wrapf and WithStack return nil for a nil
\* error and neither create nor change an xError.
C10_NilPropagation ==
    [][(Called /\ call'.op \in {"Wrap", "Wrapf", "WithStack"} /\ call'.err = Nil)
       => ret' = RetErr(Nil) /\ objs' = objs]_vars

\* a nil error was passed while xErrors exist
C10_Witness ==
    /\ call.op \in {"Wrap", "Wrapf", "WithStack"}
    /\ call.err = Nil
    /\ ret = RetErr(Nil)
    /\ Len(objs) >= 1
====
